---------------------------- MODULE Spec2Model ----------------------------
(***************************************************************************)
(* Model of CC1101/rx_profile_demo.cpp: the command-line scan of main()    *)
(* that resolves (mode, freq, channel, addr), followed by the calls main() *)
(* makes on the CC1100 driver object and the three extern slots it owns.   *)
(*                                                                         *)
(* A token of the argument list is a sequence of one-character strings, so *)
(* that strcmp is sequence equality and atoi is computed digit by digit.   *)
(* argv holds the tokens after the program name: argv[k] here is argv[k]   *)
(* of the C program for k >= 1, and argc is Len(argv) + 1.                 *)
(***************************************************************************)
EXTENDS Integers, Sequences, FiniteSets, TLC

VARIABLES
    argv,                   \* the argument list handed to main (never written)
    i,                      \* loop index of the scan, line 32
    addr, mode, freq, channel,          \* locals of main, lines 27-30
    my_addr,                \* volatile copy of addr, line 51
    cc1100_freq_select,     \* extern slot owned by the driver, line 52
    cc1100_mode_select,     \* extern slot owned by the driver, line 53
    cc1100_channel_select,  \* extern slot owned by the driver, line 54
    driver,                 \* what the driver has seen so far: slot writes and calls, in order
    out,                    \* what has been printed on standard output, in order
    exit_code,              \* return value of main once pc = "done"
    pc                      \* position of main

vars == << argv, i, addr, mode, freq, channel, my_addr, cc1100_freq_select,
           cc1100_mode_select, cc1100_channel_select, driver, out, exit_code, pc >>

config == << addr, mode, freq, channel >>
slots  == << my_addr, cc1100_freq_select, cc1100_mode_select, cc1100_channel_select >>

-----------------------------------------------------------------------------
(* Bounds and the tokens the argument lists are drawn from.                *)

MaxArgs == 3

TokH       == << "-", "h" >>
TokTPMS    == << "-", "m", "T", "P", "M", "S" >>
TokIoT     == << "-", "m", "I", "o", "T" >>
TokGFSK100 == << "-", "m", "G", "F", "S", "K", "1", "0", "0" >>
TokOOK     == << "-", "m", "O", "O", "K" >>
TokAddr    == << "-", "a", "d", "d", "r" >>
TokFreq    == << "-", "f", "r", "e", "q" >>
TokChannel == << "-", "c", "h", "a", "n", "n", "e", "l" >>
TokBogus   == << "-", "b", "o", "g", "u", "s" >>
Tok4       == << "4" >>
Tok200     == << "2", "0", "0" >>
Tok300     == << "3", "0", "0" >>
TokMinus1  == << "-", "1" >>
TokTwoTo31 == << "2", "1", "4", "7", "4", "8", "3", "6", "4", "8" >>

Tokens == { TokH, TokTPMS, TokIoT, TokGFSK100, TokOOK, TokAddr, TokFreq,
            TokChannel, TokBogus, Tok4, Tok200, Tok300, TokMinus1, TokTwoTo31 }

RECURSIVE ArgLists(_)
ArgLists(n) ==
    IF n = 0 THEN { << >> }
    ELSE LET shorter == ArgLists(n - 1)
         IN  shorter \cup { Append(a, t) : a \in { b \in shorter : Len(b) = n - 1 }, t \in Tokens }

-----------------------------------------------------------------------------
(* Library functions main() calls.                                         *)

IntMax == 2147483647
IntMin == (-IntMax) - 1

\* strcmp: 0 exactly when the two strings are equal (only ==0 is tested).
strcmp(a, b) == IF a = b THEN 0 ELSE 1

IsSpace(c) == c \in { " ", "\t", "\n" }
IsDigit(c) == c \in { "0", "1", "2", "3", "4", "5", "6", "7", "8", "9" }
DigitVal(c) ==
    CASE c = "0" -> 0 [] c = "1" -> 1 [] c = "2" -> 2 [] c = "3" -> 3 [] c = "4" -> 4
      [] c = "5" -> 5 [] c = "6" -> 6 [] c = "7" -> 7 [] c = "8" -> 8 [] c = "9" -> 9

RECURSIVE SkipSpace(_, _)
SkipSpace(s, k) == IF k <= Len(s) /\ IsSpace(s[k]) THEN SkipSpace(s, k + 1) ELSE k

\* Two's-complement addition of two 32-bit ints, without leaving the int range.
WrapAdd(a, b) ==
    IF b > 0 /\ a > IntMax - b THEN (IntMin + b) + ((a - IntMax) - 1)
    ELSE IF b < 0 /\ a < IntMin - b THEN ((IntMax + b) + (a - IntMin)) + 1
    ELSE a + b

WrapTimes10(a) ==
    LET a2 == WrapAdd(a, a)
        a4 == WrapAdd(a2, a2)
        a8 == WrapAdd(a4, a4)
    IN  WrapAdd(a8, a2)

WrapNeg(a) == IF a = IntMin THEN IntMin ELSE -a

\* The digits from position k on, accumulated as a long that is then cut to
\* the low 32 bits (a build whose long is wider than int).
RECURSIVE AccWrap(_, _, _)
AccWrap(s, k, acc) ==
    IF k <= Len(s) /\ IsDigit(s[k])
    THEN AccWrap(s, k + 1, WrapAdd(WrapTimes10(acc), DigitVal(s[k])))
    ELSE acc

\* The digits from position k on, accumulated with the clamp of strtol (a
\* build whose long is as wide as int): ovf is set once the magnitude
\* exceeds IntMax.
RECURSIVE AccSat(_, _, _, _)
AccSat(s, k, acc, ovf) ==
    IF k <= Len(s) /\ IsDigit(s[k])
    THEN LET d == DigitVal(s[k])
         IN  IF ovf \/ acc > (IntMax - d) \div 10
             THEN AccSat(s, k + 1, acc, TRUE)
             ELSE AccSat(s, k + 1, acc * 10 + d, FALSE)
    ELSE [ v |-> acc, ovf |-> ovf ]

\* atoi: leading white space, an optional sign, then decimal digits up to the
\* first character that is not one; 0 when there are no digits.  A value that
\* int cannot represent is undefined behaviour: the set holds what the builds
\* produce (clamped by a 32-bit strtol, or cut to 32 bits from a 64-bit long).
atoi(s) ==
    LET k0   == SkipSpace(s, 1)
        sign == k0 <= Len(s) /\ s[k0] \in { "+", "-" }
        neg  == sign /\ s[k0] = "-"
        k1   == IF sign THEN k0 + 1 ELSE k0
        sat  == AccSat(s, k1, 0, FALSE)
        wrap == AccWrap(s, k1, 0)
    IN  { IF sat.ovf THEN (IF neg THEN IntMin ELSE IntMax)
                     ELSE (IF neg THEN -sat.v ELSE sat.v),
          IF neg THEN WrapNeg(wrap) ELSE wrap }

\* Line 38 without the cast.
ToUint8_NoCast(n) == n

\* The cast (uint8_t)n of line 38.
ToUint8(n) == n % 256

-----------------------------------------------------------------------------
(* main(): construction of the locals.                                     *)

\* Lines 27-30 with freq initialized to 0x02.
DefaultConfig_Band433 == [ addr |-> 1, mode |-> 3, freq |-> 2, channel |-> 0 ]
DefaultConfig == [ addr |-> 1, mode |-> 3, freq |-> 3, channel |-> 0 ]

argc == Len(argv) + 1

Usage == [ msg |-> "usage" ]
UnknownArgumentMsg(tok) == [ msg |-> "Unknown argument", arg |-> tok ]
InitFailedMsg == [ msg |-> "Failed to init CC1101" ]
AppliedMsg(m, f, c, a) ==
    [ msg |-> "Applied profile", mode |-> m, freq_sel |-> f, channel |-> c, addr |-> a ]

Return(code) == pc' = "done" /\ exit_code' = code

\* main is entered with some argument list; the locals hold their initializers
\* (lines 27-30).  my_addr does not exist before line 51 and the three slots
\* are the driver's globals, not yet written by main: all four start at 0.
Init ==
    /\ argv \in ArgLists(MaxArgs)
    /\ i = 1
    /\ addr = DefaultConfig.addr
    /\ mode = DefaultConfig.mode
    /\ freq = DefaultConfig.freq
    /\ channel = DefaultConfig.channel
    /\ my_addr = 0
    /\ cc1100_freq_select = 0
    /\ cc1100_mode_select = 0
    /\ cc1100_channel_select = 0
    /\ driver = << >>
    /\ out = << >>
    /\ exit_code = -1
    /\ pc = "parse"


-----------------------------------------------------------------------------
(* main(): the scan of the argument list, lines 32-46.  One action per     *)
(* branch of the if/else chain; each action is one iteration of the loop.  *)

\* The loop is at argv[i] and argv[i] is the string flag.
AtToken(flag) == pc = "parse" /\ i < argc /\ strcmp(argv[i], flag) = 0

\* The guard i+1<argc of the three value-taking branches.
HasValue == i + 1 < argc

\* The condition of the final else: no branch of the chain matched.
NoBranchMatches ==
    /\ pc = "parse" /\ i < argc
    /\ strcmp(argv[i], TokH) # 0
    /\ strcmp(argv[i], TokTPMS) # 0
    /\ strcmp(argv[i], TokIoT) # 0
    /\ strcmp(argv[i], TokGFSK100) # 0
    /\ strcmp(argv[i], TokOOK) # 0
    /\ ~(strcmp(argv[i], TokAddr) = 0 /\ HasValue)
    /\ ~(strcmp(argv[i], TokFreq) = 0 /\ HasValue)
    /\ ~(strcmp(argv[i], TokChannel) = 0 /\ HasValue)

\* Line 33 without its return: the usage text is printed and the scan goes on.
Help_NoReturn ==
    /\ AtToken(TokH)
    /\ out' = Append(out, Usage)
    /\ i' = i + 1
    /\ UNCHANGED << argv, config, slots, driver, exit_code, pc >>

\* line 33
Help ==
    /\ AtToken(TokH)
    /\ out' = Append(out, Usage)
    /\ Return(0)
    /\ UNCHANGED << argv, i, config, slots, driver >>

\* Line 34 without its assignment to freq.
ProfileTPMS_ModeOnly ==
    /\ AtToken(TokTPMS)
    /\ mode' = 7
    /\ i' = i + 1
    /\ UNCHANGED << argv, addr, freq, channel, slots, driver, out, exit_code, pc >>

\* line 34
ProfileTPMS ==
    /\ AtToken(TokTPMS)
    /\ mode' = 7 /\ freq' = 2
    /\ i' = i + 1
    /\ UNCHANGED << argv, addr, channel, slots, driver, out, exit_code, pc >>

\* line 35
ProfileIoT ==
    /\ AtToken(TokIoT)
    /\ mode' = 8 /\ freq' = 3
    /\ i' = i + 1
    /\ UNCHANGED << argv, addr, channel, slots, driver, out, exit_code, pc >>

\* line 36
ProfileGFSK100 ==
    /\ AtToken(TokGFSK100)
    /\ mode' = 3
    /\ i' = i + 1
    /\ UNCHANGED << argv, addr, freq, channel, slots, driver, out, exit_code, pc >>

\* Line 37 with an assignment to freq, as line 34 has.
ProfileOOK_Retunes ==
    /\ AtToken(TokOOK)
    /\ mode' = 6 /\ freq' = 2
    /\ i' = i + 1
    /\ UNCHANGED << argv, addr, channel, slots, driver, out, exit_code, pc >>

\* line 37
ProfileOOK ==
    /\ AtToken(TokOOK)
    /\ mode' = 6
    /\ i' = i + 1
    /\ UNCHANGED << argv, addr, freq, channel, slots, driver, out, exit_code, pc >>

\* line 38: addr = (uint8_t)atoi(argv[++i]), then the loop's i++
OptAddr ==
    /\ AtToken(TokAddr) /\ HasValue
    /\ \E n \in atoi(argv[i + 1]) : addr' = ToUint8(n)
    /\ i' = i + 2
    /\ UNCHANGED << argv, mode, freq, channel, slots, driver, out, exit_code, pc >>

\* line 39: freq = atoi(argv[++i]), then the loop's i++
OptFreq ==
    /\ AtToken(TokFreq) /\ HasValue
    /\ \E n \in atoi(argv[i + 1]) : freq' = n
    /\ i' = i + 2
    /\ UNCHANGED << argv, addr, mode, channel, slots, driver, out, exit_code, pc >>

\* line 40: channel = atoi(argv[++i]), then the loop's i++
OptChannel ==
    /\ AtToken(TokChannel) /\ HasValue
    /\ \E n \in atoi(argv[i + 1]) : channel' = n
    /\ i' = i + 2
    /\ UNCHANGED << argv, addr, mode, freq, slots, driver, out, exit_code, pc >>

\* Lines 41-45 as an empty else: the token is skipped without a word.
UnknownArgument_SilentSkip ==
    /\ NoBranchMatches
    /\ i' = i + 1
    /\ UNCHANGED << argv, config, slots, driver, out, exit_code, pc >>

\* Lines 41-45 without the return: the diagnostic is printed and the scan goes on.
UnknownArgument_NoReturn ==
    /\ NoBranchMatches
    /\ out' = out \o << UnknownArgumentMsg(argv[i]), Usage >>
    /\ i' = i + 1
    /\ UNCHANGED << argv, config, slots, driver, exit_code, pc >>

\* lines 41-45
UnknownArgument ==
    /\ NoBranchMatches
    /\ out' = out \o << UnknownArgumentMsg(argv[i]), Usage >>
    /\ Return(1)
    /\ UNCHANGED << argv, i, config, slots, driver >>

-----------------------------------------------------------------------------
(* main(): the driver, lines 48-64.                                        *)

SlotWrite(slot, v) == [ op |-> slot, arg |-> v ]
Call(name) == [ op |-> name ]
CallArg(name, v) == [ op |-> name, arg |-> v ]
BeginCall(a, r) == [ op |-> "begin", arg |-> a, ret |-> r ]

\* lines 32, 48-49: the loop condition fails; CC1100 radio; radio.set_debug_level(1)
SetDebugLevel ==
    /\ pc = "parse" /\ ~(i < argc)
    /\ driver' = Append(driver, CallArg("set_debug_level", 1))
    /\ pc' = "copy_addr"
    /\ UNCHANGED << argv, i, config, slots, out, exit_code >>

\* line 51
CopyAddr ==
    /\ pc = "copy_addr"
    /\ my_addr' = addr
    /\ pc' = "write_freq"
    /\ UNCHANGED << argv, i, config, cc1100_freq_select, cc1100_mode_select,
                    cc1100_channel_select, driver, out, exit_code >>

\* line 52
WriteFreqSelect ==
    /\ pc = "write_freq"
    /\ cc1100_freq_select' = freq
    /\ driver' = Append(driver, SlotWrite("cc1100_freq_select", freq))
    /\ pc' = "write_mode"
    /\ UNCHANGED << argv, i, config, my_addr, cc1100_mode_select,
                    cc1100_channel_select, out, exit_code >>

\* line 53
WriteModeSelect ==
    /\ pc = "write_mode"
    /\ cc1100_mode_select' = mode
    /\ driver' = Append(driver, SlotWrite("cc1100_mode_select", mode))
    /\ pc' = "write_channel"
    /\ UNCHANGED << argv, i, config, my_addr, cc1100_freq_select,
                    cc1100_channel_select, out, exit_code >>

\* line 54
WriteChannelSelect ==
    /\ pc = "write_channel"
    /\ cc1100_channel_select' = channel
    /\ driver' = Append(driver, SlotWrite("cc1100_channel_select", channel))
    /\ pc' = "begin"
    /\ UNCHANGED << argv, i, config, my_addr, cc1100_freq_select,
                    cc1100_mode_select, out, exit_code >>

\* Lines 56-59 without the return: the diagnostic is printed and main goes on.
BeginFails_FallsThrough ==
    /\ pc = "begin"
    /\ driver' = Append(driver, BeginCall(my_addr, FALSE))
    /\ out' = Append(out, InitFailedMsg)
    /\ pc' = "print_applied"
    /\ UNCHANGED << argv, i, config, slots, exit_code >>

\* lines 56-59: radio.begin(my_addr) returns FALSE
BeginFails ==
    /\ pc = "begin"
    /\ driver' = Append(driver, BeginCall(my_addr, FALSE))
    /\ out' = Append(out, InitFailedMsg)
    /\ Return(2)
    /\ UNCHANGED << argv, i, config, slots >>

\* line 56: radio.begin(my_addr) returns TRUE
BeginSucceeds ==
    /\ pc = "begin"
    /\ driver' = Append(driver, BeginCall(my_addr, TRUE))
    /\ pc' = "print_applied"
    /\ UNCHANGED << argv, i, config, slots, out, exit_code >>

\* line 61
PrintApplied ==
    /\ pc = "print_applied"
    /\ out' = Append(out, AppliedMsg(mode, freq, channel, addr))
    /\ pc' = "show"
    /\ UNCHANGED << argv, i, config, slots, driver, exit_code >>

\* line 62
ShowRegisterSettings ==
    /\ pc = "show"
    /\ driver' = Append(driver, Call("show_register_settings"))
    /\ pc' = "end"
    /\ UNCHANGED << argv, i, config, slots, out, exit_code >>

\* Line 63 left out.
End_Omitted ==
    /\ pc = "end"
    /\ pc' = "return"
    /\ UNCHANGED << argv, i, config, slots, driver, out, exit_code >>

\* line 63
End ==
    /\ pc = "end"
    /\ driver' = Append(driver, Call("end"))
    /\ pc' = "return"
    /\ UNCHANGED << argv, i, config, slots, out, exit_code >>

\* line 64
ReturnSuccess ==
    /\ pc = "return"
    /\ Return(0)
    /\ UNCHANGED << argv, i, config, slots, driver, out >>

Next ==
    \/ Help
    \/ ProfileTPMS
    \/ ProfileIoT
    \/ ProfileGFSK100
    \/ ProfileOOK
    \/ OptAddr
    \/ OptFreq
    \/ OptChannel
    \/ UnknownArgument
    \/ SetDebugLevel
    \/ CopyAddr
    \/ WriteFreqSelect
    \/ WriteModeSelect
    \/ WriteChannelSelect
    \/ BeginFails
    \/ BeginSucceeds
    \/ PrintApplied
    \/ ShowRegisterSettings
    \/ End
    \/ ReturnSuccess

Spec == Init /\ [][Next]_vars

TypeOK ==
    /\ Len(argv) <= MaxArgs /\ \A k \in 1..Len(argv) : argv[k] \in Tokens
    /\ i \in 1..(MaxArgs + 1)
    /\ addr \in 0..255
    /\ mode \in { 3, 6, 7, 8 }
    /\ freq \in Int /\ channel \in Int
    /\ exit_code \in { -1, 0, 1, 2 }
    /\ pc \in { "parse", "copy_addr", "write_freq", "write_mode", "write_channel",
                "begin", "print_applied", "show", "end", "return", "done" }

-----------------------------------------------------------------------------
(* Vocabulary of the properties.                                           *)

ValueFlags == { TokAddr, TokFreq, TokChannel }
ProfileFlags == { TokTPMS, TokIoT, TokGFSK100, TokOOK }
RecognizedFlags == { TokH } \cup ProfileFlags \cup ValueFlags

\* The scan stands at token k of the list, about to examine it.
ScanAt(k) == pc = "parse" /\ i = k /\ k <= Len(argv)

\* A finished run never moves again.
DoneIsFinal == pc = "done" => UNCHANGED vars

IsSlotWrite(e) == e.op \in { "cc1100_freq_select", "cc1100_mode_select", "cc1100_channel_select" }
DriverOps(name) == { k \in 1..Len(driver) : driver[k].op = name }
NoConfigurationApplied ==
    /\ \A k \in 1..Len(driver) : ~IsSlotWrite(driver[k]) /\ driver[k].op # "begin"
    /\ cc1100_freq_select = 0 /\ cc1100_mode_select = 0 /\ cc1100_channel_select = 0
Printed(m) == \E k \in 1..Len(out) : out[k].msg = m

\* A decimal integer literal: an optional sign, then digits only, at least one.
IsIntLiteral(tok) ==
    LET first == IF tok # << >> /\ tok[1] \in { "+", "-" } THEN 2 ELSE 1
    IN  /\ first <= Len(tok)
        /\ \A k \in first..Len(tok) : IsDigit(tok[k])

\* The literal's value modulo 256, from its digits alone.
RECURSIVE DigitsMod256(_, _, _)
DigitsMod256(tok, k, acc) ==
    IF k > Len(tok) THEN acc
    ELSE DigitsMod256(tok, k + 1, (acc * 10 + DigitVal(tok[k])) % 256)

LiteralMod256(tok) ==
    LET first == IF tok[1] \in { "+", "-" } THEN 2 ELSE 1
        m     == DigitsMod256(tok, first, 0)
    IN  IF tok[1] = "-" THEN (256 - m) % 256 ELSE m

\* The literal's magnitude is at most 2147483647, decided on the digit string.
RECURSIVE DigitsLeq(_, _, _)
DigitsLeq(a, b, k) ==
    IF k > Len(a) THEN TRUE
    ELSE IF DigitVal(a[k]) < DigitVal(b[k]) THEN TRUE
    ELSE IF DigitVal(a[k]) > DigitVal(b[k]) THEN FALSE
    ELSE DigitsLeq(a, b, k + 1)

FitsInt(tok) ==
    LET first  == IF tok[1] \in { "+", "-" } THEN 2 ELSE 1
        digits == SubSeq(tok, first, Len(tok))
    IN  \/ Len(digits) < 10
        \/ Len(digits) = 10
           /\ DigitsLeq(digits, << "2", "1", "4", "7", "4", "8", "3", "6", "4", "7" >>, 1)

-----------------------------------------------------------------------------
(* C1 *)

\* C1 as stated: whenever the argument list contains -h at any position, no
\* configuration is ever applied to the driver, and the run ends with exit
\* code 0 having printed exactly the usage text.
C1_HelpAnywhereExitsZero ==
    (\E k \in 1..Len(argv) : argv[k] = TokH) =>
        /\ NoConfigurationApplied
        /\ pc = "done" => (exit_code = 0 /\ out = << Usage >>)

\* C1 as amended: whenever the scan reaches a -h token, that step prints the
\* usage text and ends the run with exit code 0, nothing has been or is
\* applied to the driver (no slot written, begin not called), and the
\* finished run never moves again.
C1_HelpShortCircuits ==
    [][ /\ DoneIsFinal
        /\ (\E k \in 1..Len(argv) : ScanAt(k) /\ argv[k] = TokH) =>
              /\ pc' = "done" /\ exit_code' = 0
              /\ out' = Append(out, Usage)
              /\ driver = << >> /\ driver' = << >>
              /\ NoConfigurationApplied /\ NoConfigurationApplied' ]_vars

C1_Witness ==
    /\ pc = "done" /\ exit_code = 0 /\ out = << Usage >>
    /\ Len(argv) = 3 /\ i = 2 /\ argv[2] = TokH

-----------------------------------------------------------------------------
(* C2 *)

\* C2 as stated: when the scan stands at a value-taking flag that is the
\* final token, the step drops it silently: nothing is printed, the
\* configuration keeps its values, and the run goes on towards driver
\* initialization instead of ending with exit code 1.
C2_DanglingFlagSilentlyDropped ==
    [][ (ScanAt(Len(argv)) /\ argv[i] \in ValueFlags) =>
            /\ out' = out
            /\ UNCHANGED config
            /\ pc' # "done" /\ exit_code' # 1 ]_vars

\* C2 as amended: when the scan stands at a value-taking flag that is the
\* final token, nothing is consumed and the configuration keeps its values,
\* but the flag is reported: "Unknown argument" with that flag and the usage
\* text are printed and the run ends with exit code 1, the driver untouched.
C2_DanglingFlagIsUnknownArgument ==
    [][ (ScanAt(Len(argv)) /\ argv[i] \in ValueFlags) =>
            /\ out' = out \o << UnknownArgumentMsg(argv[i]), Usage >>
            /\ UNCHANGED << i, config >>
            /\ pc' = "done" /\ exit_code' = 1
            /\ driver' = << >> /\ NoConfigurationApplied' ]_vars

C2_Witness ==
    /\ pc = "done" /\ exit_code = 1
    /\ Len(argv) = 3 /\ i = 3 /\ argv[3] = TokFreq
    /\ out = << UnknownArgumentMsg(TokFreq), Usage >>
    /\ mode = 7

-----------------------------------------------------------------------------
(* C3 *)

\* C3: at the moment begin is called, the mode slot holds one of 0x03, 0x06,
\* 0x07, 0x08 and the frequency-band slot holds one of 1, 2, 3, 4.
C3_EnumeratedAtBegin ==
    pc = "begin" =>
        /\ cc1100_mode_select \in { 3, 6, 7, 8 }
        /\ cc1100_freq_select \in { 1, 2, 3, 4 }

-----------------------------------------------------------------------------
(* C4 *)

\* The positions the scan examines as flags in a list that is scanned to its
\* end: a value-taking flag with a token after it takes that token with it.
RECURSIVE FlagPositions(_, _)
FlagPositions(a, k) ==
    IF k > Len(a) THEN { }
    ELSE IF a[k] \in ValueFlags /\ k < Len(a)
         THEN { k } \cup FlagPositions(a, k + 2)
         ELSE { k } \cup FlagPositions(a, k + 1)

WritersOf(field) ==
    CASE field = "mode"    -> ProfileFlags
      [] field = "freq"    -> { TokTPMS, TokIoT, TokFreq }
      [] field = "channel" -> { TokChannel }
      [] field = "addr"    -> { TokAddr }

Max(S) == CHOOSE x \in S : \A y \in S : y <= x

\* What the token at position k of list a sets the field to.
ValueSetBy(a, k, field) ==
    CASE a[k] = TokTPMS    -> IF field = "mode" THEN { 7 } ELSE { 2 }
      [] a[k] = TokIoT     -> IF field = "mode" THEN { 8 } ELSE { 3 }
      [] a[k] = TokGFSK100 -> { 3 }
      [] a[k] = TokOOK     -> { 6 }
      [] a[k] = TokAddr    -> { n % 256 : n \in atoi(a[k + 1]) }
      [] a[k] \in { TokFreq, TokChannel } -> atoi(a[k + 1])

LastWriterValue(a, field, default) ==
    LET writers == { k \in FlagPositions(a, 1) : a[k] \in WritersOf(field) }
    IN  IF writers = { } THEN { default } ELSE ValueSetBy(a, Max(writers), field)

-----------------------------------------------------------------------------
(* C5 *)

BeginFailed == \E k \in DriverOps("begin") : driver[k].ret = FALSE

\* C5: once begin has returned false, the run has ended with exit code 2,
\* begin was called exactly once, and neither show_register_settings nor end
\* has been called.
C5_InitFailureExits2 ==
    BeginFailed =>
        /\ pc = "done" /\ exit_code = 2
        /\ Cardinality(DriverOps("begin")) = 1
        /\ DriverOps("show_register_settings") = { }
        /\ DriverOps("end") = { }

C5_Witness ==
    /\ BeginFailed /\ pc = "done" /\ exit_code = 2
    /\ out = << InitFailedMsg >>

-----------------------------------------------------------------------------
(* C6 *)

\* C6: whenever the scan reaches a token that is not a recognized flag, that
\* step prints "Unknown argument" with that very token and ends the run with
\* exit code 1; no driver operation has happened or happens, whatever was
\* parsed before and whatever follows; the finished run never moves again.
C6_UnknownArgumentExits1 ==
    [][ /\ DoneIsFinal
        /\ (\E k \in 1..Len(argv) : ScanAt(k) /\ argv[k] \notin RecognizedFlags) =>
              /\ pc' = "done" /\ exit_code' = 1
              /\ Len(out') > Len(out)
              /\ out'[Len(out) + 1] = UnknownArgumentMsg(argv[i])
              /\ driver = << >> /\ driver' = << >>
              /\ NoConfigurationApplied' ]_vars

C6_Witness ==
    /\ pc = "done" /\ exit_code = 1
    /\ Len(argv) = 3 /\ i = 2 /\ argv[2] = TokBogus /\ argv[1] = TokTPMS
    /\ out = << UnknownArgumentMsg(TokBogus), Usage >>
    /\ driver = << >>

-----------------------------------------------------------------------------
(* C7 *)

IsPrefix(s, t) == Len(s) <= Len(t) /\ \A k \in 1..Len(s) : s[k] = t[k]

\* The driver operations of a run with the resolved configuration, in order.
ExpectedOps(ret) ==
    << SlotWrite("cc1100_freq_select", freq),
       SlotWrite("cc1100_mode_select", mode),
       SlotWrite("cc1100_channel_select", channel),
       BeginCall(addr, ret),
       Call("show_register_settings"),
       Call("end") >>

\* What the driver has seen, the debug-level call left out.
ConfigOps == SelectSeq(driver, LAMBDA e : e.op # "set_debug_level")

BeginSucceeded == \E k \in DriverOps("begin") : driver[k].ret = TRUE

\* C7: what the driver sees is always a prefix of: frequency-band slot, mode
\* slot, channel slot (each with the resolved value), begin(nodeAddress),
\* show_register_settings, end; nothing follows a failed begin; a run whose
\* begin succeeded ends with the whole sequence, each once, and exit code 0.
C7_DriverOrder ==
    /\ \/ IsPrefix(ConfigOps, ExpectedOps(TRUE))
       \/ IsPrefix(ConfigOps, SubSeq(ExpectedOps(FALSE), 1, 4))
    /\ (pc = "done" /\ BeginSucceeded) =>
           (ConfigOps = ExpectedOps(TRUE) /\ exit_code = 0)
    /\ (pc = "done" /\ exit_code = 0 /\ ~Printed("usage")) => BeginSucceeded

C7_Witness ==
    /\ pc = "done" /\ exit_code = 0 /\ BeginSucceeded
    /\ ConfigOps = ExpectedOps(TRUE)
    /\ argv = << TokIoT, TokChannel, Tok4 >>
    /\ out = << AppliedMsg(8, 3, 4, 1) >>

-----------------------------------------------------------------------------
(* C8 *)

\* C8: a step of the scan at a profile flag applies its table entry and
\* nothing else: -mTPMS (0x07, 0x02), -mIoT (0x08, 0x03), -mGFSK100 mode
\* 0x03 with the band kept, -mOOK mode 0x06 with the band kept; channel and
\* nodeAddress are kept in all four.
C8_ProfileTable ==
    [][ \A k \in 1..Len(argv) : ScanAt(k) =>
          /\ argv[k] = TokTPMS    => (mode' = 7 /\ freq' = 2 /\ UNCHANGED << channel, addr >>)
          /\ argv[k] = TokIoT     => (mode' = 8 /\ freq' = 3 /\ UNCHANGED << channel, addr >>)
          /\ argv[k] = TokGFSK100 => (mode' = 3 /\ UNCHANGED << freq, channel, addr >>)
          /\ argv[k] = TokOOK     => (mode' = 6 /\ UNCHANGED << freq, channel, addr >>) ]_vars

C8_Witness ==
    /\ pc = "parse" /\ i = 4
    /\ argv = << TokFreq, Tok4, TokOOK >>
    /\ mode = 6 /\ freq = 4

-----------------------------------------------------------------------------
(* C9 *)

\* C9 as stated: a step of the scan at -addr followed by any integer literal
\* v sets nodeAddress to v mod 256 and keeps the other three fields.
C9_AddrIsValueMod256 ==
    [][ \A k \in 1..Len(argv) :
          (ScanAt(k) /\ argv[k] = TokAddr /\ k < Len(argv) /\ IsIntLiteral(argv[k + 1])) =>
              /\ addr' = LiteralMod256(argv[k + 1])
              /\ UNCHANGED << mode, freq, channel >> ]_vars

\* C9 as amended: a step of the scan at -addr followed by an integer literal
\* v that an int can hold sets nodeAddress to v mod 256, a value in 0..255,
\* and keeps the other three fields; -addr 200 gives 200, -addr 300 gives 44.
C9_AddrIsIntValueMod256 ==
    [][ \A k \in 1..Len(argv) :
          (ScanAt(k) /\ argv[k] = TokAddr /\ k < Len(argv)
             /\ IsIntLiteral(argv[k + 1]) /\ FitsInt(argv[k + 1])) =>
              /\ addr' = LiteralMod256(argv[k + 1])
              /\ addr' \in 0..255
              /\ argv[k + 1] = Tok200 => addr' = 200
              /\ argv[k + 1] = Tok300 => addr' = 44
              /\ UNCHANGED << mode, freq, channel >> ]_vars

C9_Witness ==
    /\ pc = "parse" /\ i = 4
    /\ argv = << TokTPMS, TokAddr, Tok300 >>
    /\ addr = 44 /\ mode = 7 /\ freq = 2

-----------------------------------------------------------------------------
(* C10 *)

\* C10: with an empty argument list the run reaches begin with mode 0x03,
\* band 0x03, channel 0 and nodeAddress 1 handed to the driver, and nothing
\* printed; it never ends with the help or unknown-argument exit.
C10_DefaultsWithNoArguments ==
    argv = << >> =>
        /\ pc = "begin" =>
              /\ cc1100_mode_select = 3 /\ cc1100_freq_select = 3
              /\ cc1100_channel_select = 0 /\ my_addr = 1
              /\ out = << >>
        /\ ~Printed("usage") /\ ~Printed("Unknown argument")
        /\ pc = "done" => (exit_code \in { 0, 2 } /\ DriverOps("begin") # { })

C10_Witness ==
    /\ argv = << >> /\ pc = "begin"
    /\ cc1100_mode_select = 3 /\ cc1100_freq_select = 3
    /\ cc1100_channel_select = 0 /\ my_addr = 1
=============================================================================
